---------------------------- MODULE Spec2Model ----------------------------
(***************************************************************************)
(* Model of the command-interpretation and multi-source aggregation        *)
(* pipeline of src/marketing/leads.py: MCPParser, the five DataSource      *)
(* plugins, MockAISummarizer and IntelligenceAgent.                        *)
(*                                                                         *)
(* A Python str is a sequence of one-character strings.  Characters        *)
(* outside ASCII are written by code point ("U+1F4E7").  The regular       *)
(* expressions of the source are transcribed as matchers with Python's     *)
(* re semantics (leftmost match, greedy and lazy quantifiers, ordered      *)
(* alternation).                                                           *)
(***************************************************************************)
EXTENDS Naturals, Sequences, FiniteSets

(***************************************************************************)
(* Characters and character classes used by the regular expressions.       *)
(***************************************************************************)
LowerLetters ==
    <<"a","b","c","d","e","f","g","h","i","j","k","l","m","n","o","p","q","r","s","t","u","v",
      "w","x","y","z">>

UpperLetters ==
    <<"A","B","C","D","E","F","G","H","I","J","K","L","M","N","O","P","Q","R","S","T","U","V",
      "W","X","Y","Z">>

DigitChars ==
    <<"0","1","2","3","4","5","6","7","8","9">>

Range(f) == {f[k] : k \in DOMAIN f}

LowerSet == Range(LowerLetters)

UpperSet == Range(UpperLetters)

DigitSet == Range(DigitChars)

LetterSet == LowerSet \cup UpperSet

\* \s
SpaceSet == {" ", "\n", "\t"}

\* \w
WordSet == LetterSet \cup DigitSet \cup {"_"}

ToLowerMap == [c \in UpperSet |-> LowerLetters[CHOOSE k \in 1..26 : UpperLetters[k] = c]]

LowerChar(c) == IF c \in UpperSet THEN ToLowerMap[c] ELSE c

ToUpperMap == [c \in LowerSet |-> UpperLetters[CHOOSE k \in 1..26 : LowerLetters[k] = c]]

UpperChar(c) == IF c \in LowerSet THEN ToUpperMap[c] ELSE c

\* str.lower()
StrLower(s) == [k \in 1..Len(s) |-> LowerChar(s[k])]

\* str.upper()
StrUpper(s) == [k \in 1..Len(s) |-> UpperChar(s[k])]

NotBlank(c) == c # " "

\* str.replace(' ', by) for a replacement by of length 0 or 1
ReplaceSpace(s, by) ==
    IF by = <<>> THEN SelectSeq(s, NotBlank)
    ELSE [k \in 1..Len(s) |-> IF s[k] = " " THEN by[1] ELSE s[k]]

Min(S) == CHOOSE x \in S : \A y \in S : x <= y

Max(S) == CHOOSE x \in S : \A y \in S : x >= y

\* the text w stands in s at position i
HasAt(s, i, w) ==
    /\ i >= 1
    /\ i + Len(w) - 1 <= Len(s)
    /\ \A k \in 1..Len(w) : s[i + k - 1] = w[k]

\* "w in s"
Contains(s, w) == \E i \in 1..(Len(s) + 1) : HasAt(s, i, w)

\* s.startswith(w)
StartsWith(s, w) == HasAt(s, 1, w)

\* the last position of the longest run of characters of class C that starts
\* at p (p - 1 when s[p] is not in C): a greedy C*
RunEnd(s, p, C) ==
    CHOOSE e \in (p - 1)..Len(s) :
        /\ e = Len(s) \/ s[e + 1] \notin C
        /\ \A j \in p..e : s[j] \in C

\* str.strip()
Strip(s) ==
    LET ink == {k \in 1..Len(s) : s[k] \notin SpaceSet}
    IN  IF ink = {} THEN <<>> ELSE SubSeq(s, Min(ink), Max(ink))

\* "sep".join(parts)
RECURSIVE JoinFrom(_, _, _)
JoinFrom(parts, sep, k) ==
    IF k > Len(parts) THEN <<>>
    ELSE IF k = Len(parts) THEN parts[k]
    ELSE parts[k] \o sep \o JoinFrom(parts, sep, k + 1)

Join(parts, sep) == JoinFrom(parts, sep, 1)

(***************************************************************************)
(* re.findall: the non-overlapping matches, leftmost first.  ends[i] is    *)
(* the last position of the match that starts at i, or 0.  No pattern of   *)
(* the source matches the empty string.                                    *)
(***************************************************************************)
RECURSIVE SpansFrom(_, _)
SpansFrom(ends, pos) ==
    LET cand == {i \in pos..Len(ends) : ends[i] # 0}
    IN  IF cand = {} THEN <<>>
        ELSE LET i == Min(cand)
             IN  <<<<i, ends[i]>>>> \o SpansFrom(ends, ends[i] + 1)

FindAll(s, ends) ==
    LET spans == SpansFrom(ends, 1)
    IN  [k \in 1..Len(spans) |-> SubSeq(s, spans[k][1], spans[k][2])]

(***************************************************************************)
(* MCPParser                                                               *)
(***************************************************************************)
\* r'https?://[^\s]+' at position i: the last position matched, or 0
UrlEndAt(s, i) ==
    IF ~HasAt(s, i, <<"h", "t", "t", "p">>) THEN 0
    ELSE LET p == IF HasAt(s, i + 4, <<"s">>) THEN i + 5 ELSE i + 4
             q == p + 3
         IN  IF ~HasAt(s, p, <<":", "/", "/">>) THEN 0
             ELSE IF q > Len(s) \/ s[q] \in SpaceSet THEN 0
             ELSE CHOOSE e \in q..Len(s) :
                      /\ e = Len(s) \/ s[e + 1] \in SpaceSet
                      /\ \A j \in q..e : s[j] \notin SpaceSet

\* the URLs of a command, the last one first
extract_urls_last_first(command) ==
    LET urls == FindAll(command, [i \in 1..Len(command) |-> UrlEndAt(command, i)])
    IN  [k \in 1..Len(urls) |-> urls[Len(urls) + 1 - k]]

extract_urls(command) ==
    FindAll(command, [i \in 1..Len(command) |-> UrlEndAt(command, i)])

is_url(text) == \E i \in 1..Len(text) : UrlEndAt(text, i) # 0

\* Python's None
None == <<"None">>

LitCompany ==
    <<"c","o","m","p","a","n","y">>

LitEmployees ==
    <<"e","m","p","l","o","y","e","e","s">>

LitStaff ==
    <<"s","t","a","f","f">>

LitTeam ==
    <<"t","e","a","m">>

LitLeads ==
    <<"l","e","a","d","s">>

\* [a-zA-Z\s&]
CapClass == LetterSet \cup SpaceSet \cup {"&"}

\* \s+ at p: the position after the whitespace, or 0 when s[p] is no whitespace
WsSkip(s, p) ==
    IF p > Len(s) \/ s[p] \notin SpaceSet THEN 0 ELSE RunEnd(s, p, SpaceSet) + 1

\* (?:company|corp|inc|ltd|employees|staff|team) of the second template
OrgNouns == <<LitCompany, <<"c", "o", "r", "p">>, <<"i", "n", "c">>, <<"l", "t",
        "d">>, LitEmployees, LitStaff, LitTeam>>

\* what must follow the capture, at position p; ls is the text lowercased
\* (re.IGNORECASE): "end" is (?:\s|$), "noun" is (?:\s+(?:company|...|team))
TailOk(s, ls, p, tail) ==
    IF tail = "end" THEN p > Len(s) \/ s[p] \in SpaceSet
    ELSE LET q == WsSkip(s, p)
         IN  q # 0 /\ \E k \in 1..Len(OrgNouns) : HasAt(ls, q, OrgNouns[k])

\* ([A-Z][a-zA-Z\s&]+?) at c under re.IGNORECASE, followed by the tail: the
\* capture <<c, e>> with the least e (the quantifier is lazy), or <<>>
LazyCapture(s, ls, c, tail) ==
    IF c > Len(s) \/ s[c] \notin LetterSet THEN <<>>
    ELSE LET lim == RunEnd(s, c + 1, CapClass)
             ok == {e \in (c + 1)..lim : TailOk(s, ls, e + 1, tail)}
         IN  IF ok = {} THEN <<>> ELSE <<c, Min(ok)>>

\* The four templates of _extract_company.  A template is a sequence of
\* alternations, each followed by \s+, then the capture, then the tail.  An
\* optional letter (employees?, leads?) is the alternation of the longer and
\* the shorter word, the longer tried first (the quantifier is greedy).
company_patterns ==
    << [segs |-> << <<LitCompany, <<"b", "u", "s", "i", "n", "e", "s", "s">>, <<"f", "i", "r",
            "m">>, <<"c", "o", "r", "p">>, <<"c", "o", "r", "p", "o", "r", "a", "t", "i", "o",
            "n">>,
                      <<"i", "n", "c">>, <<"l", "t", "d">>>> >>,
        tail |-> "end"],
       [segs |-> << <<<<"f", "r", "o", "m">>, <<"a", "t">>, <<"o", "f">>>> >>, tail |-> "noun"],
       [segs |-> << <<LitEmployees, <<"e", "m", "p", "l", "o", "y", "e", "e">>>>, <<<<"f", "r",
               "o", "m">>, <<"a", "t">>, <<"o", "f">>>> >>,
        tail |-> "end"],
       [segs |-> << <<LitLeads, <<"l", "e", "a", "d">>>>, <<<<"f", "r", "o", "m">>, <<"a",
               "t">>, <<"o", "f">>>> >>,
        tail |-> "end"] >>

\* the match of a template's alternations k.. at position p: its capture, or <<>>
RECURSIVE SegMatch(_, _, _, _, _)
SegMatch(s, ls, p, pat, k) ==
    IF k > Len(pat.segs) THEN LazyCapture(s, ls, p, pat.tail)
    ELSE LET alts == pat.segs[k]
             try == [j \in 1..Len(alts) |->
                        IF ~HasAt(ls, p, alts[j]) THEN <<>>
                        ELSE LET q == WsSkip(s, p + Len(alts[j]))
                             IN  IF q = 0 THEN <<>> ELSE SegMatch(s, ls, q, pat, k + 1)]
             good == {j \in 1..Len(alts) : try[j] # <<>>}
         IN  IF good = {} THEN <<>> ELSE try[Min(good)]

\* re.search(pattern, command, re.IGNORECASE): group 1 of the leftmost match,
\* or None
SearchCompany(command, pat) ==
    LET ls == StrLower(command)
        at == [i \in 1..Len(command) |-> SegMatch(command, ls, i, pat, 1)]
        starts == {i \in 1..Len(command) : at[i] # <<>>}
    IN  IF starts = {} THEN None
        ELSE LET m == at[Min(starts)] IN SubSeq(command, m[1], m[2])

\* _extract_company with the templates tried from the last to the first
extract_company_last_first(command) ==
    LET found == [k \in 1..Len(company_patterns) |->
                     SearchCompany(command, company_patterns[k])]
        hit == {k \in 1..Len(company_patterns) : found[k] # None}
    IN  IF hit = {} THEN None ELSE Strip(found[Max(hit)])

\* the templates in list order; the first that matches wins
extract_company(command) ==
    LET found == [k \in 1..Len(company_patterns) |->
                     SearchCompany(command, company_patterns[k])]
        hit == {k \in 1..Len(company_patterns) : found[k] # None}
    IN  IF hit = {} THEN None ELSE Strip(found[Min(hit)])

company_keywords ==
    <<LitEmployees, LitStaff, LitTeam, LitLeads, <<"p", "e", "o", "p", "l", "e", " ", "f", "r",
            "o", "m">>, <<"w", "o", "r", "k", "e", "r", "s", " ", "a", "t">>>>

HasCompanyKeyword(command) ==
    \E k \in 1..Len(company_keywords) : Contains(StrLower(command), company_keywords[k])

\* [A-Z][a-z]+ at p: the last position matched (the quantifier is greedy), or 0
CapWordEnd(s, p) ==
    IF p > Len(s) \/ s[p] \notin UpperSet THEN 0
    ELSE LET e == RunEnd(s, p + 1, LowerSet) IN IF e = p THEN 0 ELSE e

\* r'about\s+([A-Z][a-z]+\s+[A-Z][a-z]+)' at i: the capture <<from, to>>, or <<>>
NameAt(s, i) ==
    IF ~HasAt(s, i, <<"a", "b", "o", "u", "t">>) THEN <<>>
    ELSE LET c == WsSkip(s, i + Len(<<"a", "b", "o", "u", "t">>))
             e1 == IF c = 0 THEN 0 ELSE CapWordEnd(s, c)
             d == IF e1 = 0 THEN 0 ELSE WsSkip(s, e1 + 1)
             e2 == IF d = 0 THEN 0 ELSE CapWordEnd(s, d)
         IN  IF e2 = 0 THEN <<>> ELSE <<c, e2>>

\* a parse_command that never finds a name
extract_name_unknown(command) == <<"U", "n", "k", "n", "o", "w", "n", " ", "P", "e", "r", "s",
        "o", "n">>

\* re.search(...) of parse_command and the "Unknown Person" default
extract_name(command) ==
    LET starts == {i \in 1..Len(command) : NameAt(command, i) # <<>>}
    IN  IF starts = {} THEN <<"U", "n", "k", "n", "o", "w", "n", " ", "P", "e", "r", "s", "o",
            "n">>
        ELSE LET m == NameAt(command, Min(starts)) IN SubSeq(command, m[1], m[2])

LitLinkedin ==
    <<"l","i","n","k","e","d","i","n">>

LitTwitter ==
    <<"t","w","i","t","t","e","r">>

LitGithub ==
    <<"g","i","t","h","u","b">>

LitWeb ==
    <<"w","e","b">>

PersonSources == <<LitLinkedin, LitTwitter, LitGithub>>

NamedIn(command, src) == Contains(StrLower(command), StrLower(src))

\* a selection among all five sources of the registry
extract_sources_of_registry(command) ==
    LET all == <<LitLinkedin, LitTwitter, LitGithub, LitWeb, LitCompany>>
        mentioned == SelectSeq(all, LAMBDA src : NamedIn(command, src))
    IN  IF mentioned = <<>> THEN PersonSources ELSE mentioned

\* [s for s in ["linkedin", "twitter", "github"] if s.lower() in command.lower()],
\* or all three when the list is empty
extract_sources(command) ==
    LET mentioned == SelectSeq(PersonSources, LAMBDA src : NamedIn(command, src))
    IN  IF mentioned = <<>> THEN PersonSources ELSE mentioned

\* parse_command with the company check moved above the URL check
parse_command_company_first(command) ==
    LET urls == extract_urls(command)
        company == IF HasCompanyKeyword(command) THEN extract_company(command) ELSE None
    IN  IF company # None /\ company # <<>>
        THEN [type |-> "company", company |-> company, sources |-> <<LitCompany>>]
        ELSE IF urls # <<>>
        THEN [type |-> "url", urls |-> urls, sources |-> <<LitWeb>>]
        ELSE [type |-> "person", name |-> extract_name(command),
              sources |-> extract_sources(command)]

parse_command(command) ==
    LET urls == extract_urls(command)
        company == IF HasCompanyKeyword(command) THEN extract_company(command) ELSE None
    IN  IF urls # <<>>
        THEN [type |-> "url", urls |-> urls, sources |-> <<LitWeb>>]
        ELSE IF company # None /\ company # <<>>
        THEN [type |-> "company", company |-> company, sources |-> <<LitCompany>>]
        ELSE [type |-> "person", name |-> extract_name(command),
              sources |-> extract_sources(command)]

(***************************************************************************)
(* Contact extraction: the two patterns shared by WebScraperPlugin and     *)
(* MockAISummarizer.                                                       *)
(***************************************************************************)
\* \b at p: between s[p - 1] and s[p], exactly one is a word character
WordBoundary(s, p) ==
    (p >= 2 /\ p - 1 <= Len(s) /\ s[p - 1] \in WordSet)
        # (p >= 1 /\ p <= Len(s) /\ s[p] \in WordSet)

\* [A-Za-z0-9._%+-]
EmailLocalSet == LetterSet \cup DigitSet \cup {".", "_", "%", "+", "-"}

\* [A-Za-z0-9.-]
EmailDomainSet == LetterSet \cup DigitSet \cup {".", "-"}

\* [A-Z|a-z]
EmailTldSet == LetterSet \cup {"|"}

\* [A-Z|a-z]{2,}\b at p: the last position of the longest match, or 0
TldEnd(s, p) ==
    LET ok == {t \in (p + 1)..RunEnd(s, p, EmailTldSet) : WordBoundary(s, t + 1)}
    IN  IF ok = {} THEN 0 ELSE Max(ok)

\* r'\b[A-Za-z0-9._%+-]+@[A-Za-z0-9.-]+\.[A-Z|a-z]{2,}\b' at i: the last
\* position matched, or 0.  The local part runs up to the "@"; the domain is
\* greedy and gives back up to the last "." that a top-level part can follow.
EmailEndAt(s, i) ==
    IF s[i] \notin EmailLocalSet \/ ~WordBoundary(s, i) THEN 0
    ELSE LET r == RunEnd(s, i, EmailLocalSet)
         IN  IF r >= Len(s) \/ s[r + 1] # "@" THEN 0
             ELSE LET dmax == RunEnd(s, r + 2, EmailDomainSet)
                      dots == {d \in (r + 2)..(dmax - 1) :
                                   s[d + 1] = "." /\ TldEnd(s, d + 2) # 0}
                  IN  IF dots = {} THEN 0 ELSE TldEnd(s, Max(dots) + 2)

find_emails(data) == FindAll(data, [i \in 1..Len(data) |-> EmailEndAt(data, i)])

\* [-.\s]
PhoneSepSet == {"-", "."} \cup SpaceSet

\* an optional character of class C at p (0 stays 0: no match so far)
Opt(s, p, C) == IF p # 0 /\ p <= Len(s) /\ s[p] \in C THEN p + 1 ELSE p

\* [0-9]{n} at p: the position after it, or 0
Digits(s, p, n) ==
    IF p # 0 /\ p + n - 1 <= Len(s) /\ \A k \in p..(p + n - 1) : s[k] \in DigitSet
    THEN p + n ELSE 0

\* r'(?:\+1[-.\s]?)?\(?[0-9]{3}\)?[-.\s]?[0-9]{3}[-.\s]?[0-9]{4}' at i: the last
\* position matched, or 0.  Every optional part is a single character that
\* the part after it cannot match, so taking it when present is the only way.
PhoneEndAt(s, i) ==
    LET a == IF HasAt(s, i, <<"+", "1">>) THEN Opt(s, i + 2, PhoneSepSet) ELSE i
        b == Digits(s, Opt(s, a, {"("}), 3)
        c == Digits(s, Opt(s, Opt(s, b, {")"}), PhoneSepSet), 3)
        d == Digits(s, Opt(s, c, PhoneSepSet), 4)
    IN  IF s[i] \notin DigitSet \cup {"+", "("} \/ d = 0 THEN 0 ELSE d - 1

find_phones(data) == FindAll(data, [i \in 1..Len(data) |-> PhoneEndAt(data, i)])

\* list(items): the items as found, duplicates kept
SetOrders_keep_duplicates(items) == {items}

\* list(set(items)): the distinct items in the iteration order of a set of
\* str, which the hash seed of the process decides: any order can come out
SetOrders(items) ==
    LET S == Range(items)
    IN  {f \in [1..Cardinality(S) -> S] : Range(f) = S}

\* items[:n]
Take(items, n) == SubSeq(items, 1, IF Len(items) < n THEN Len(items) ELSE n)

(***************************************************************************)
(* The DataSource plugins.                                                 *)
(***************************************************************************)
LinkedInPlugin_fetch_data(name) ==
    <<"L", "i", "n", "k", "e", "d", "I", "n", ":", " ">> \o name \o <<" ", "-", " ", "S", "e",
            "n", "i", "o", "r", " ", "D", "e", "v", "e", "l", "o", "p", "e", "r", " ", "a", "t",
            " ", "T", "e", "c", "h", " ", "C", "o", "r", "p", ",", " ", "5", "+", " ", "y", "e",
            "a", "r", "s", " ", "e", "x", "p", "e", "r", "i", "e", "n", "c", "e", ".", " ", "L",
            "o", "c", "a", "t", "i", "o", "n", ":", " ", "S", "a", "n", " ", "F", "r", "a", "n",
            "c", "i", "s", "c", "o", ",", " ", "C", "A", ".", " ", "E", "m", "a", "i", "l", ":",
            " ">>
        \o ReplaceSpace(StrLower(name), <<".">>) \o <<"@", "t", "e", "c", "h", "c", "o", "r", "p",
                ".", "c", "o", "m">>

TwitterPlugin_fetch_data(name) == <<"T", "w", "i", "t", "t", "e", "r", ":",
        " ">> \o name \o <<" ", "-", " ", "T", "e", "c", "h", " ", "i", "n", "f", "l", "u", "e",
        "n", "c", "e", "r", ",", " ", "1", "0", "K", " ", "f", "o", "l", "l", "o", "w", "e", "r",
        "s", ".", " ", "B", "i", "o", " ", "l", "o", "c", "a", "t", "i", "o", "n", ":", " ", "S",
        "F", " ", "B", "a", "y", " ", "A", "r", "e", "a", ".", " ", "C", "o", "n", "t", "a", "c",
        "t", ":", " ", "D", "M", " ", "o", "p", "e", "n", " ", "f", "o", "r", " ", "c", "o", "l",
        "l", "a", "b", "o", "r", "a", "t", "i", "o", "n", "s", ".">>

GitHubPlugin_fetch_data(name) ==
    <<"G", "i", "t", "H", "u", "b", ":", " ">> \o name \o <<" ", "-", " ", "5", "0", "+", " ",
            "r", "e", "p", "o", "s", ",", " ", "P", "y", "t", "h", "o", "n", "/", "J", "S", " ",
            "e", "x", "p", "e", "r", "t", ".", " ", "L", "o", "c", "a", "t", "i", "o", "n", ":",
            " ", "C", "a", "l", "i", "f", "o", "r", "n", "i", "a", ",", " ", "U", "S", "A", ".",
            " ", "P", "u", "b", "l", "i", "c", " ", "e", "m", "a", "i", "l", ":",
            " ">> \o ReplaceSpace(StrLower(name), <<>>) \o <<"@", "g", "m", "a", "i", "l", ".",
            "c", "o", "m">>

mock_employees(company) ==
    LET dom == ReplaceSpace(StrLower(company), <<>>) \o <<".", "c", "o", "m">>
    IN  << [name |-> <<"J", "o", "h", "n", " ", "S", "m", "i", "t", "h">>,
            title |-> <<"C", "E", "O">>,
            email |-> <<"j", ".", "s", "m", "i", "t", "h", "@">> \o dom,
            phone |-> <<"+", "1", "-", "5", "5", "5", "-", "0", "1", "0", "1">>,
            location |-> <<"N", "e", "w", " ", "Y", "o", "r", "k", ",", " ", "N", "Y">>,
            address |-> <<"1", "2", "3", " ", "B", "u", "s", "i", "n", "e", "s", "s", " ", "A",
                    "v", "e", ",", " ", "N", "Y", "C", " ", "1", "0", "0", "0", "1">>,
            linkedin |-> <<"l", "i", "n", "k", "e", "d", "i", "n", ".", "c", "o", "m", "/", "i",
                    "n", "/", "j", "o", "h", "n", "-", "s", "m", "i", "t", "h",
                    "-">> \o StrLower(company)],
           [name |-> <<"S", "a", "r", "a", "h", " ", "J", "o", "h", "n", "s", "o", "n">>,
            title |-> <<"C", "T", "O">>,
            email |-> <<"s", "a", "r", "a", "h", ".", "j", "@">> \o dom,
            phone |-> <<"+", "1", "-", "5", "5", "5", "-", "0", "1", "0", "2">>,
            location |-> <<"S", "a", "n", " ", "F", "r", "a", "n", "c", "i", "s", "c", "o", ",",
                    " ", "C", "A">>,
            address |-> <<"4", "5", "6", " ", "T", "e", "c", "h", " ", "S", "t", ",", " ", "S",
                    "F", " ", "9", "4", "1", "0", "5">>,
            linkedin |-> <<"l", "i", "n", "k", "e", "d", "i", "n", ".", "c", "o", "m", "/", "i",
                    "n", "/", "s", "a", "r", "a", "h", "-", "j", "o", "h", "n", "s", "o", "n",
                    "-">> \o StrLower(company)],
           [name |-> <<"M", "i", "k", "e", " ", "C", "h", "e", "n">>,
            title |-> <<"V", "P", " ", "E", "n", "g", "i", "n", "e", "e", "r", "i", "n", "g">>,
            email |-> <<"m", ".", "c", "h", "e", "n", "@">> \o dom,
            phone |-> <<"+", "1", "-", "5", "5", "5", "-", "0", "1", "0", "3">>,
            location |-> <<"A", "u", "s", "t", "i", "n", ",", " ", "T", "X">>,
            address |-> <<"7", "8", "9", " ", "I", "n", "n", "o", "v", "a", "t", "i", "o", "n",
                    " ", "D", "r", ",", " ", "A", "u", "s", "t", "i", "n", " ", "7", "8", "7",
                    "0", "1">>,
            linkedin |-> <<"l", "i", "n", "k", "e", "d", "i", "n", ".", "c", "o", "m", "/", "i",
                    "n", "/", "m", "i", "k", "e", "-", "c", "h", "e", "n",
                    "-">> \o StrLower(company)] >>

RuleWidth == 50

EmployeeBlock(emp) ==
    <<"U+1F464", " ">> \o emp.name \o <<" ", "-", " ">> \o emp.title \o <<"\n">>
        \o <<" ", " ", " ", "U+1F4E7", " ">> \o emp.email \o <<"\n">>
        \o <<" ", " ", " ", "U+1F4F1", " ">> \o emp.phone \o <<"\n">>
        \o <<" ", " ", " ", "U+1F4CD", " ">> \o emp.location \o <<"\n">>
        \o <<" ", " ", " ", "U+1F3E2", " ">> \o emp.address \o <<"\n">>
        \o <<" ", " ", " ", "U+1F517", " ">> \o emp.linkedin \o <<"\n", "\n">>

CompanyPlugin_fetch_data(company) ==
    LET emps == mock_employees(company)
    IN  <<"C", "o", "m", "p", "a", "n", "y", ":", " ">> \o company \o <<" ", "-", " ", "E", "m",
            "p", "l", "o", "y", "e", "e", " ", "D", "i", "r", "e", "c", "t", "o", "r", "y",
            "\n">> \o [k \in 1..RuleWidth |-> "="] \o <<"\n">>
            \o EmployeeBlock(emps[1]) \o EmployeeBlock(emps[2]) \o EmployeeBlock(emps[3])

\* r'<[^>]+>' at i: the last position matched, or 0
TagEndAt(s, i) ==
    IF s[i] # "<" THEN 0
    ELSE LET r == CHOOSE e \in i..Len(s) :
                      /\ e = Len(s) \/ s[e + 1] = ">"
                      /\ \A j \in (i + 1)..e : s[j] # ">"
         IN  IF r = i \/ r = Len(s) THEN 0 ELSE r + 1

\* re.sub(pattern, ' ', s) for the matches spans
RECURSIVE SubBlank(_, _, _, _)
SubBlank(s, spans, k, pos) ==
    IF k > Len(spans) THEN SubSeq(s, pos, Len(s))
    ELSE SubSeq(s, pos, spans[k][1] - 1) \o <<" ">>
             \o SubBlank(s, spans, k + 1, spans[k][2] + 1)

StripTags(content) ==
    SubBlank(content, SpansFrom([i \in 1..Len(content) |-> TagEndAt(content, i)], 1), 1, 1)

\* the last position of the word that starts at i, or 0 when no word starts at i
WordEndAt(s, i) ==
    IF s[i] \in SpaceSet \/ (i > 1 /\ s[i - 1] \notin SpaceSet) THEN 0
    ELSE RunEnd(s, i, Range(s) \ SpaceSet)

\* ' '.join(text.split())
CollapseSpace(text) ==
    Join(FindAll(text, [i \in 1..Len(text) |-> WordEndAt(text, i)]), <<" ">>)

PreviewBudget == 800

MaxFoundEmails == 5

MaxFoundPhones == 3

\* the exception handler of WebScraperPlugin.fetch_data
\* a fetch_data without the except clause: the exception goes to the caller
WebScraperPlugin_propagate(url, e) == [raised |-> TRUE, text |-> <<>>]

\* except Exception as e: return f"Error fetching URL {url}: {str(e)}"
WebScraperPlugin_except(url, e) ==
    [raised |-> FALSE, text |-> <<"E", "r", "r", "o", "r", " ", "f", "e", "t", "c", "h", "i", "n",
            "g", " ", "U", "R", "L", " ">> \o url \o <<":", " ">> \o e]

\* the emails and phones whose set WebScraperPlugin.fetch_data joins
WebEmails(content) == Take(find_emails(content), MaxFoundEmails)

WebPhones(content) == Take(find_phones(content), MaxFoundPhones)

\* WebScraperPlugin.fetch_data.  response is what urlopen(...).read().decode()
\* gives: the content, or the exception raised on the way (a timeout, an
\* HTTPError, a UnicodeDecodeError).  eorder and porder are the iteration
\* orders of set(emails[:5]) and set(phones[:3]).
WebScraperPlugin_fetch_data(url, response, eorder, porder) ==
    IF ~response.ok THEN WebScraperPlugin_except(url, response.error)
    ELSE LET content == response.content
             text == CollapseSpace(StripTags(content))
             text_preview == IF Len(text) > PreviewBudget
                             THEN SubSeq(text, 1, PreviewBudget) \o <<".", ".", ".">> ELSE text
         IN  [raised |-> FALSE,
              text |-> <<"W", "e", "b", " ", "C", "o", "n", "t", "e", "n", "t", " ", "f", "r",
                      "o", "m", " ">> \o url \o <<":", "\n">> \o text_preview \o <<"\n", "\n">>
                  \o (IF find_emails(content) # <<>>
                      THEN <<"U+1F4E7", " ", "F", "o", "u", "n", "d", " ", "e", "m", "a", "i",
                              "l", "s", ":", " ">> \o Join(eorder, <<",",
                              " ">>) \o <<"\n">> ELSE <<>>)
                  \o (IF find_phones(content) # <<>>
                      THEN <<"U+1F4F1", " ", "F", "o", "u", "n", "d", " ", "p", "h", "o", "n",
                              "e", "s", ":", " ">> \o Join(porder, <<",",
                              " ">>) \o <<"\n">> ELSE <<>>)]

(***************************************************************************)
(* json.dumps(obj, indent=2) for the values summarize builds.  A value is  *)
(* tagged: a str, a float (its repr), a list of values, or a dict, which   *)
(* is the sequence of its <<key, value>> items in insertion order.         *)
(***************************************************************************)
PyStr(chars) == [t |-> "str", v |-> chars]

PyFloat(repr) == [t |-> "float", v |-> repr]

PyList(items) == [t |-> "list", v |-> items]

PyDict(items) == [t |-> "dict", v |-> items]

\* the characters json.dumps writes with a backslash, and the letter it writes
JsonEscapes == {<<"\"", "\"">>, <<"\\", "\\">>, <<"\n", "n">>, <<"\t", "t">>}

JsonEscaped == {p[1] : p \in JsonEscapes}

EscapeLetter(c) == (CHOOSE p \in JsonEscapes : p[1] = c)[2]

\* the body of a JSON string
JsonEscape(chars) ==
    LET E == {k \in 1..Len(chars) : chars[k] \in JsonEscaped}
        at(j) == j + Cardinality({e \in E : e < j})
        src(n) == CHOOSE j \in 1..Len(chars) :
                      at(j) <= n /\ n <= at(j) + (IF j \in E THEN 1 ELSE 0)
    IN  IF E = {} THEN chars
        ELSE [n \in 1..(Len(chars) + Cardinality(E)) |->
                 IF src(n) \notin E THEN chars[src(n)]
                 ELSE IF n = at(src(n)) THEN "\\" ELSE EscapeLetter(chars[src(n)])]

JsonIndent == 2

Pad(level) == [k \in 1..(JsonIndent * level) |-> " "]

RECURSIVE JsonDumps(_, _)
JsonDumps(val, level) ==
    IF val.t = "str" THEN <<"\"">> \o JsonEscape(val.v) \o <<"\"">>
    ELSE IF val.t = "float" THEN val.v
    ELSE IF val.t = "list" THEN
        IF val.v = <<>> THEN <<"[", "]">>
        ELSE <<"[", "\n">>
                 \o Join([k \in 1..Len(val.v) |->
                             Pad(level + 1) \o JsonDumps(val.v[k], level + 1)], <<",", "\n">>)
                 \o <<"\n">> \o Pad(level) \o <<"]">>
    ELSE
        IF val.v = <<>> THEN <<"{", "}">>
        ELSE <<"{", "\n">>
                 \o Join([k \in 1..Len(val.v) |->
                             Pad(level + 1) \o <<"\"">> \o JsonEscape(val.v[k][1])
                                 \o <<"\"", ":", " ">>
                                 \o JsonDumps(val.v[k][2], level + 1)], <<",", "\n">>)
                 \o <<"\n">> \o Pad(level) \o <<"}">>

(***************************************************************************)
(* MockAISummarizer                                                        *)
(***************************************************************************)
SummaryText ==
    <<"P","r","o","f","e","s","s","i","o","n","a","l"," ","I","n","t","e","l","l","i","g","e",
      "n","c","e"," ","S","u","m","m","a","r","y",":"," ","C","o","m","p","r","e","h","e","n",
      "s","i","v","e"," ","p","r","o","f","i","l","e"," ","w","i","t","h"," ","c","o","n","t",
      "a","c","t"," ","d","e","t","a","i","l","s"," ","e","x","t","r","a","c","t","e","d"," ",
      "f","r","o","m"," ","m","u","l","t","i","p","l","e"," ","s","o","u","r","c","e","s",".">>

KeyContactInfo ==
    <<"c","o","n","t","a","c","t","_","i","n","f","o">>

KeyEmails ==
    <<"e","m","a","i","l","s">>

KeyPhones ==
    <<"p","h","o","n","e","s">>

MdTitle ==
    <<"#"," ","I","n","t","e","l","l","i","g","e","n","c","e"," ","S","u","m","m","a","r","y",
      "\n","\n">>

MdContactHeading ==
    <<"#","#"," ","U+1F4DE"," ","C","o","n","t","a","c","t"," ","I","n","f","o","r","m","a","t",
      "i","o","n","\n">>

MdEmails ==
    <<"*","*","E","m","a","i","l","s","*","*",":"," ">>

MdPhones ==
    <<"*","*","P","h","o","n","e","s","*","*",":"," ">>

MdSources ==
    <<"#","#"," ","D","a","t","a"," ","S","o","u","r","c","e","s","\n","-"," ","L","i","n","k",
      "e","d","I","n","\n","-"," ","T","w","i","t","t","e","r","\n","-"," ","G","i","t","H","u",
      "b","\n","-"," ","W","e","b"," ","S","c","r","a","p","i","n","g","\n","-"," ","C","o","m",
      "p","a","n","y"," ","D","i","r","e","c","t","o","r","y">>

TextContactHeading ==
    <<"\n","\n","U+1F4DE"," ","C","O","N","T","A","C","T"," ","I","N","F","O",":">>

TextEmails ==
    <<"\n","U+1F4E7"," ","E","m","a","i","l","s",":"," ">>

TextPhones ==
    <<"\n","U+1F4F1"," ","P","h","o","n","e","s",":"," ">>

\* "key in contact_info"
HasKey(dict, key) == \E k \in 1..Len(dict) : dict[k][1] = key

\* contact_info[key]
Lookup(dict, key) == dict[CHOOSE k \in 1..Len(dict) : dict[k][1] = key][2]

\* a contact_info that holds both keys whatever was found
contact_info_both_keys(emails, phones, eorder, porder) ==
    << <<KeyEmails, eorder>>, <<KeyPhones, porder>> >>

\* the contact_info dict of summarize; eorder and porder are the iteration
\* orders of set(emails) and set(phones)
contact_info(emails, phones, eorder, porder) ==
    (IF emails # <<>> THEN << <<KeyEmails, eorder>> >> ELSE <<>>)
        \o (IF phones # <<>> THEN << <<KeyPhones, porder>> >> ELSE <<>>)

StrList(items) == PyList([k \in 1..Len(items) |-> PyStr(items[k])])

ContactInfoValue(info) ==
    PyDict([k \in 1..Len(info) |-> <<info[k][1], StrList(info[k][2])>>])

summarize_json(summary, info) ==
    JsonDumps(PyDict(<< <<<<"s", "u", "m", "m", "a", "r", "y">>, PyStr(summary)>>,
                        <<KeyContactInfo, ContactInfoValue(info)>>,
                        <<<<"c", "o", "n", "f", "i", "d", "e", "n", "c", "e">>, PyFloat(<<"0",
                                ".", "8">>)>>,
                        <<<<"s", "o", "u", "r", "c", "e",
                                "s">>, StrList(<<LitLinkedin, LitTwitter, LitGithub, LitWeb,
                                               LitCompany>>)>> >>), 0)

summarize_markdown(summary, info) ==
    MdTitle \o summary \o <<"\n", "\n">>
        \o (IF info # <<>>
            THEN MdContactHeading
                     \o (IF HasKey(info, KeyEmails)
                         THEN MdEmails \o Join(Lookup(info, KeyEmails), <<",", " ">>)
                                  \o <<"\n", "\n">>
                         ELSE <<>>)
                     \o (IF HasKey(info, KeyPhones)
                         THEN MdPhones \o Join(Lookup(info, KeyPhones), <<",", " ">>)
                                  \o <<"\n", "\n">>
                         ELSE <<>>)
            ELSE <<>>)
        \o MdSources

summarize_text(summary, info) ==
    summary
        \o (IF info # <<>>
            THEN TextContactHeading
                     \o (IF HasKey(info, KeyEmails)
                         THEN TextEmails \o Join(Lookup(info, KeyEmails), <<",", " ">>)
                         ELSE <<>>)
                     \o (IF HasKey(info, KeyPhones)
                         THEN TextPhones \o Join(Lookup(info, KeyPhones), <<",", " ">>)
                         ELSE <<>>)
            ELSE <<>>)

\* the two re.findall calls of summarize
extract_contacts(data) == [emails |-> find_emails(data), phones |-> find_phones(data)]

\* summarize after the two re.findall calls
render(found, format_type, eorder, porder) ==
    LET info == contact_info(found.emails, found.phones, eorder, porder)
    IN  IF format_type = "json" THEN summarize_json(SummaryText, info)
        ELSE IF format_type = "markdown" THEN summarize_markdown(SummaryText, info)
        ELSE summarize_text(SummaryText, info)

\* MockAISummarizer.summarize; eorder \in SetOrders(find_emails(data)) and
\* porder \in SetOrders(find_phones(data))
summarize(data, format_type, eorder, porder) ==
    render(extract_contacts(data), format_type, eorder, porder)

(***************************************************************************)
(* Inputs: the commands, format selectors, configuration files and web     *)
(* responses the environment can supply.                                   *)
(***************************************************************************)
\* the longest command, in phrases of the vocabulary
MaxPhrases == 2

PhraseEmployees ==
    <<"e","m","p","l","o","y","e","e","s"," ","f","r","o","m"," ","T","e","c","h","C","o","r",
      "p"," ","I","n","c">>

PhraseAbout ==
    <<"T","e","l","l"," ","m","e"," ","a","b","o","u","t"," ","J","o","h","n"," ","D","o","e">>

PhraseTeam ==
    <<"t","e","a","m">>

PhraseLeads ==
    <<"l","e","a","d","s"," ","o","f"," ","A","c","m","e">>

PhraseStaff ==
    <<"s","t","a","f","f"," ","a","t"," ","G","l","o","b","e","x"," ","C","o","r","p">>

PhraseSources ==
    <<"o","n"," ","G","i","t","H","u","b"," ","a","n","d"," ","L","i","n","k","e","d","I","n">>

CmdTwoUrls ==
    <<"s","e","e"," ","h","t","t","p","s",":","/","/","a",".","i","o"," ","h","t","t","p",":",
      "/","/","b",".","c","o","/","x"," ","h","t","t","p",":","/","/">>

CmdUrlCompany ==
    <<"h","t","t","p","s",":","/","/","a",".","i","o"," ","e","m","p","l","o","y","e","e","s",
      " ","f","r","o","m"," ","T","e","c","h","C","o","r","p"," ","I","n","c"," ","h","t","t",
      "p","s",":","/","/","a",".","i","o">>

CmdUrlPerson ==
    <<"T","e","l","l"," ","m","e"," ","a","b","o","u","t"," ","J","o","h","n"," ","D","o","e",
      " ","a","t"," ","h","t","t","p",":","/","/","b",".","c","o","/","x">>

CmdSpaced ==
    <<"e","m","p","l","o","y","e","e","s"," ","o","f"," ","A"," "," ","B">>

CmdJane ==
    <<"a","b","o","u","t"," ","j","a","n","e"," ","R","o","e",","," ","a","b","o","u","t"," ",
      "J","a","n","e"," "," ","R","o","e"," ","o","n"," ","T","w","i","t","t","e","r"," ","a",
      "n","d"," ","L","i","n","k","e","d","I","n",","," ","w","e","b",","," ","c","o","m","p",
      "a","n","y">>

Vocabulary ==
    {PhraseEmployees, PhraseAbout, PhraseTeam, PhraseLeads, PhraseStaff, PhraseSources}

\* the commands with URLs: two URLs and a scheme with nothing after it; one URL
\* twice, around a company request; a person request with a URL
UrlCommands == {CmdTwoUrls, CmdUrlCompany, CmdUrlPerson}

\* a command that is not a str (gather_intelligence(None))
NotAStr == None

\* the empty command; a company name of one letter before two blanks; a
\* person request whose first "about" has no name behind it and which names
\* two person sources, the web and the company source
OtherCommands == {<<>>, CmdSpaced, CmdJane}

StrCommands ==
    OtherCommands \cup UrlCommands
        \cup {Join(ps, <<" ">>) : ps \in UNION {[1..n -> Vocabulary] : n \in 1..MaxPhrases}}

Commands == StrCommands \cup {NotAStr}

\* the OutputFormat enumeration
Formats == {"text", "json", "markdown"}

\* the selectors a caller of gather_intelligence can pass
Selectors == Formats \cup {"xml"}

PageContact ==
    <<"<","p",">","M","a","i","l"," ","b","o","b","@","a",".","i","o",","," ","b","o","b","@",
      "a",".","i","o"," ","o","r"," ","a","n","n","@","a",".","i","o","<","/","p",">"," ","5",
      "5","5","-","1","2","3","-","4","5","6","7">>

PagePlain ==
    <<"<","b",">","N","o"," ","c","o","n","t","a","c","t","<","/","b",">"," "," ","h","e","r",
      "e">>

ErrTimedOut ==
    <<"t","i","m","e","d"," ","o","u","t">>

ErrHttp404 ==
    <<"H","T","T","P"," ","E","r","r","o","r"," ","4","0","4",":"," ","N","o","t"," ","F","o",
      "u","n","d">>

ErrTypeError ==
    <<"e","x","p","e","c","t","e","d"," ","s","t","r","i","n","g"," ","o","r"," ","b","y","t",
      "e","s","-","l","i","k","e"," ","o","b","j","e","c","t",","," ","g","o","t"," ","'","N",
      "o","n","e","T","y","p","e","'">>

Pages == {PageContact, PagePlain}

\* str(e) of what urlopen, read or decode raise
FetchErrors == {ErrTimedOut, ErrHttp404}

Responses ==
    {[ok |-> TRUE, content |-> c, error |-> <<>>] : c \in Pages}
        \cup {[ok |-> FALSE, content |-> <<>>, error |-> e] : e \in FetchErrors}

ErrUnexpected ==
    <<"m","a","x","i","m","u","m"," ","r","e","c","u","r","s","i","o","n"," ","d","e","p","t",
      "h"," ","e","x","c","e","e","d","e","d">>

\* str(e) of an exception no statement of the source raises on purpose
UnexpectedErrors == {ErrUnexpected}

(***************************************************************************)
(* IntelligenceAgent                                                       *)
(***************************************************************************)
VARIABLES
    config,          \* self.config
    sources_map,     \* self.parser.sources_map
    pc,              \* where gather_intelligence stands
    command,         \* its arguments
    output_format,
    parsed,          \* its locals
    gathered_data,
    target,
    idx,             \* iterations done of the loop over urls or sources
    result,          \* the value returned, None before
    raised,          \* an exception left gather_intelligence
    exc,             \* the exception its handler caught: <<where from, str(e)>>
    fetch_log,       \* the fetch_data calls of this run: <<source, subject, whether
                     \* the provider got its data>>
    ai_log,          \* the format_type of each summarize call of this run
    emails,          \* the locals of that summarize call: what re.findall returned
    phones

vars ==
    <<config, sources_map, pc, command, output_format, parsed, gathered_data, target, idx,
      result, raised, exc, fetch_log, ai_log, emails, phones>>

\* MCPParser.__init__
MCPParser_init ==
    << <<LitLinkedin, "LinkedInPlugin">>, <<LitTwitter, "TwitterPlugin">>,
       <<LitGithub, "GitHubPlugin">>, <<LitWeb, "WebScraperPlugin">>,
       <<LitCompany, "CompanyPlugin">> >>

default_config == << <<"ai_provider", "mock">>, <<"api_keys", <<>> >> >>

\* the configuration file agent_config.json: the repository ships none
ConfigFiles == {[exists |-> FALSE, data |-> <<>>]}

\* a _load_config without the default: a missing file gives no configuration
load_config_required(config_file) == IF config_file.exists THEN config_file.data ELSE None

load_config(config_file) == IF config_file.exists THEN config_file.data ELSE default_config

NoIntent == [type |-> "none"]

Init ==
    /\ config \in {load_config(f) : f \in ConfigFiles}
    /\ sources_map = MCPParser_init
    /\ pc = "idle"
    /\ command = <<>>
    /\ output_format = "text"
    /\ parsed = NoIntent
    /\ gathered_data = <<>>
    /\ target = <<>>
    /\ idx = 0
    /\ result = None
    /\ raised = FALSE
    /\ exc = <<>>
    /\ fetch_log = <<>>
    /\ ai_log = <<>>
    /\ emails = <<>>
    /\ phones = <<>>

ErrorPrefix ==
    <<"E","r","r","o","r"," ","g","a","t","h","e","r","i","n","g"," ","i","n","t","e","l","l",
      "i","g","e","n","c","e",":"," ">>

\* a handler that lets the exception go on to the caller
gather_intelligence_reraise(e) == [raised |-> TRUE, result |-> None]

\* except Exception as e: return f"Error gathering intelligence: {str(e)}"
gather_intelligence_except(e) == [raised |-> FALSE, result |-> ErrorPrefix \o e]

\* an exception raised in origin reaches the handler of gather_intelligence
Caught(origin, e) ==
    /\ pc' = "returned"
    /\ exc' = <<origin, e>>
    /\ result' = gather_intelligence_except(e).result
    /\ raised' = gather_intelligence_except(e).raised

\* gather_intelligence(cmd, fmt) is entered
Enter(cmd, fmt) ==
    /\ pc = "idle"
    /\ pc' = "parse"
    /\ command' = cmd
    /\ output_format' = fmt
    /\ parsed' = NoIntent
    /\ gathered_data' = <<>>
    /\ target' = <<>>
    /\ idx' = 0
    /\ result' = None
    /\ raised' = FALSE
    /\ exc' = <<>>
    /\ fetch_log' = <<>>
    /\ ai_log' = <<>>
    /\ emails' = <<>>
    /\ phones' = <<>>
    /\ UNCHANGED sources_map

\* agent.gather_intelligence(command, output_format) called by a program
Call ==
    \E cmd \in Commands, fmt \in Selectors :
        /\ Enter(cmd, fmt)
        /\ UNCHANGED config

\* output_format = "json" if args.json else "markdown" if args.markdown else "text"
main_output_format(json, markdown) ==
    IF json THEN "json" ELSE IF markdown THEN "markdown" ELSE "text"

\* main(): the command line builds an agent and runs one command
main ==
    \E cmd \in StrCommands, json \in BOOLEAN, markdown \in BOOLEAN, f \in ConfigFiles :
        /\ Enter(cmd, main_output_format(json, markdown))
        /\ config' = load_config(f)

\* parsed = self.parser.parse_command(command)
Parse ==
    /\ pc = "parse"
    /\ IF command = NotAStr
       THEN /\ Caught("parse_command", ErrTypeError)
            /\ UNCHANGED parsed
       ELSE /\ parsed' = parse_command(command)
            /\ pc' = "fetch"
            /\ UNCHANGED <<result, raised, exc>>
    /\ UNCHANGED <<config, sources_map, command, output_format, gathered_data, target, idx,
                   fetch_log, ai_log, emails, phones>>

\* one iteration of "for url in parsed['urls']"; after the last, target is set
FetchUrl ==
    /\ pc = "fetch"
    /\ parsed.type = "url"
    /\ LET url == parsed.urls[idx + 1]
       IN  \E response \in Responses :
           \E eorder \in SetOrders(WebEmails(response.content)),
              porder \in SetOrders(WebPhones(response.content)) :
               LET data == WebScraperPlugin_fetch_data(url, response, eorder, porder)
               IN  /\ HasKey(sources_map, LitWeb)
                   /\ Lookup(sources_map, LitWeb) = "WebScraperPlugin"
                   /\ fetch_log' = Append(fetch_log, <<LitWeb, url, response.ok>>)
                   /\ IF data.raised
                      THEN /\ Caught("fetch_data", response.error)
                           /\ UNCHANGED <<gathered_data, idx, target>>
                      ELSE /\ gathered_data' =
                                  Append(gathered_data, <<"U", "R", "L", " ">> \o url \o <<":",
                                          "\n">> \o data.text)
                           /\ idx' = idx + 1
                           /\ IF idx + 1 = Len(parsed.urls)
                              THEN /\ target' = <<"U", "R", "L", "s", ":",
                                      " ">> \o Join(parsed.urls, <<",", " ">>)
                                   /\ pc' = "summarize"
                              ELSE UNCHANGED <<target, pc>>
                           /\ UNCHANGED <<result, raised, exc>>
    /\ UNCHANGED <<config, sources_map, command, output_format, parsed, ai_log, emails, phones>>

\* the company branch
FetchCompany ==
    /\ pc = "fetch"
    /\ parsed.type = "company"
    /\ HasKey(sources_map, LitCompany)
    /\ Lookup(sources_map, LitCompany) = "CompanyPlugin"
    /\ fetch_log' = Append(fetch_log, <<LitCompany, parsed.company, TRUE>>)
    /\ gathered_data' = <<<<"C", "O", "M", "P", "A", "N", "Y", " ", "R", "E", "S", "E", "A", "R",
            "C", "H", ":", "\n">> \o CompanyPlugin_fetch_data(parsed.company)>>
    /\ target' = <<"C", "o", "m", "p", "a", "n", "y", ":", " ">> \o parsed.company
    /\ idx' = idx + 1
    /\ pc' = "summarize"
    /\ UNCHANGED <<config, sources_map, command, output_format, parsed, result, raised, exc,
                   ai_log, emails, phones>>

\* plugin.fetch_data(name) of the three person plugins
PersonPlugin_fetch_data(plugin, name) ==
    IF plugin = "LinkedInPlugin" THEN LinkedInPlugin_fetch_data(name)
    ELSE IF plugin = "TwitterPlugin" THEN TwitterPlugin_fetch_data(name)
    ELSE GitHubPlugin_fetch_data(name)

\* one iteration of "for source_name in sources"; after the last, target is set
FetchPerson ==
    /\ pc = "fetch"
    /\ parsed.type = "person"
    /\ LET source_name == parsed.sources[idx + 1]
       IN  IF HasKey(sources_map, source_name)
           THEN /\ fetch_log' = Append(fetch_log, <<source_name, parsed.name, TRUE>>)
                /\ gathered_data' =
                       Append(gathered_data,
                              StrUpper(source_name) \o <<":", " ">>
                                  \o PersonPlugin_fetch_data(Lookup(sources_map, source_name),
                                                             parsed.name))
           ELSE UNCHANGED <<fetch_log, gathered_data>>
    /\ idx' = idx + 1
    /\ IF idx + 1 = Len(parsed.sources)
       THEN /\ target' = <<"P", "e", "r", "s", "o", "n", ":", " ">> \o parsed.name
            /\ pc' = "summarize"
       ELSE UNCHANGED <<target, pc>>
    /\ UNCHANGED <<config, sources_map, command, output_format, parsed, result, raised, exc,
                   ai_log, emails, phones>>

\* combined_data = "\n".join(gathered_data)
\* summary = self.ai.summarize(f"{target}\n\n{combined_data}", output_format)
SummarizeInput == target \o <<"\n", "\n">> \o Join(gathered_data, <<"\n">>)

Summarize ==
    /\ pc = "summarize"
    /\ emails' = find_emails(SummarizeInput)
    /\ phones' = find_phones(SummarizeInput)
    /\ \E eorder \in SetOrders(emails'), porder \in SetOrders(phones') :
           result' = render([emails |-> emails', phones |-> phones'], output_format, eorder,
                            porder)
    /\ ai_log' = Append(ai_log, output_format)
    /\ pc' = "returned"
    /\ UNCHANGED <<config, sources_map, command, output_format, parsed, gathered_data, target,
                   idx, raised, exc, fetch_log>>

\* a statement inside the try block raises an Exception of its own accord
Fault ==
    /\ pc \in {"parse", "fetch", "summarize"}
    /\ \E e \in UnexpectedErrors : Caught("fault", e)
    /\ UNCHANGED <<config, sources_map, command, output_format, parsed, gathered_data, target,
                   idx, fetch_log, ai_log, emails, phones>>

\* a return after which the locals of the call stay behind in the agent
Finish_keep_frame ==
    /\ pc = "returned"
    /\ pc' = "idle"
    /\ UNCHANGED <<config, sources_map, command, output_format, parsed, gathered_data,
                   target, idx, result, raised, exc, fetch_log, ai_log, emails, phones>>

\* the caller has the result (main prints it); the frame of the call is gone
Finish ==
    /\ pc = "returned"
    /\ pc' = "idle"
    /\ command' = <<>>
    /\ output_format' = "text"
    /\ parsed' = NoIntent
    /\ gathered_data' = <<>>
    /\ target' = <<>>
    /\ idx' = 0
    /\ result' = None
    /\ raised' = FALSE
    /\ exc' = <<>>
    /\ fetch_log' = <<>>
    /\ ai_log' = <<>>
    /\ emails' = <<>>
    /\ phones' = <<>>
    /\ UNCHANGED <<config, sources_map>>

Next ==
    Call \/ main \/ Parse \/ FetchUrl \/ FetchCompany \/ FetchPerson \/ Summarize \/ Fault
        \/ Finish

Spec == Init /\ [][Next]_vars

(***************************************************************************)
(* Properties                                                              *)
(***************************************************************************)
\* parse_command has just returned in this call
Classified == pc = "fetch" /\ idx = 0

\* command.split()
Tokens(text) == FindAll(text, [i \in 1..Len(text) |-> WordEndAt(text, i)])

\* where in a blank-free token a URL starts: a scheme with a character after it
UrlStarts(tok) ==
    {i \in 1..Len(tok) :
        \/ HasAt(tok, i, <<"h", "t", "t", "p", ":", "/", "/">>) /\ i + Len(<<"h", "t", "t", "p",
                ":", "/", "/">>) <= Len(tok)
        \/ HasAt(tok, i, <<"h", "t", "t", "p", "s", ":", "/", "/">>) /\ i + Len(<<"h", "t", "t",
                "p", "s", ":", "/", "/">>) <= Len(tok)}

HoldsUrl(tok) == UrlStarts(tok) # {}

\* the URLs of a command, token by token: each runs from the first scheme of
\* its token to the end of the token
ExpectedUrls(text) ==
    LET toks == SelectSeq(Tokens(text), HoldsUrl)
    IN  [k \in 1..Len(toks) |-> SubSeq(toks[k], Min(UrlStarts(toks[k])), Len(toks[k]))]

\* the first template of _extract_company, in list order, that matches; 0 if none
FirstTemplate(text) ==
    LET hit == {k \in 1..Len(company_patterns) :
                   SearchCompany(text, company_patterns[k]) # None}
    IN  IF hit = {} THEN 0 ELSE Min(hit)

\* C1: classify returns exactly one intent and never fails on a string, with
\* precedence URL > company > person: a command that holds a URL gives a
\* UrlIntent with every URL in order of appearance, duplicates kept, whatever
\* keywords it also holds; a CompanyIntent only without a URL; a PersonIntent
\* only when neither of the other two applies.
C1_UrlPrecedence ==
    /\ (exc # <<>> /\ exc[1] = "parse_command") => command = NotAStr
    /\ Classified =>
           /\ parsed.type \in {"url", "company", "person"}
           /\ ExpectedUrls(command) # <<>> =>
                  parsed.type = "url" /\ parsed.urls = ExpectedUrls(command)
           /\ parsed.type = "url" => ExpectedUrls(command) # <<>>
           /\ parsed.type = "company" => ExpectedUrls(command) = <<>>
           /\ parsed.type = "person" =>
                  /\ ExpectedUrls(command) = <<>>
                  /\ ~(HasCompanyKeyword(command) /\ FirstTemplate(command) # 0)

\* a company request between two copies of one URL is a UrlIntent with both
C1_Witness ==
    /\ Classified
    /\ command = CmdUrlCompany
    /\ HasCompanyKeyword(command)
    /\ FirstTemplate(command) # 0
    /\ parsed.type = "url"
    /\ parsed.urls = <<<<"h", "t", "t", "p", "s", ":", "/", "/", "a", ".", "i", "o">>, <<"h", "t",
            "t", "p", "s", ":", "/", "/", "a", ".", "i", "o">>>>

\* C2: gather_intelligence never raises past its boundary: it returns a
\* string for every command and format selector, and when a stage failed the
\* string is "Error gathering intelligence: " followed by the message.
C2_NeverRaises ==
    /\ raised = FALSE
    /\ pc = "returned" => result # None
    /\ exc # <<>> =>
           /\ pc = "returned"
           /\ StartsWith(result, ErrorPrefix)
           /\ result = ErrorPrefix \o exc[2]

\* a command that is no string fails in classification, under an unknown selector
C2_Witness ==
    /\ pc = "returned"
    /\ command = NotAStr
    /\ output_format = "xml"
    /\ exc = <<"parse_command", ErrTypeError>>
    /\ result = ErrorPrefix \o ErrTypeError

\* C3 as stated: with a keyword and no URL, the company is the capture of the
\* first template in list order that matches; with no match the result is a
\* PersonIntent.
C3_Original ==
    (Classified /\ ExpectedUrls(command) = <<>> /\ HasCompanyKeyword(command)) =>
        IF FirstTemplate(command) # 0
        THEN /\ parsed.type = "company"
             /\ parsed.company =
                    SearchCompany(command, company_patterns[FirstTemplate(command)])
        ELSE parsed.type = "person"

\* C3 amended: the company is that capture with the whitespace at its ends
\* removed.
C3_FirstTemplateStripped ==
    (Classified /\ ExpectedUrls(command) = <<>> /\ HasCompanyKeyword(command)) =>
        IF FirstTemplate(command) # 0
        THEN /\ parsed.type = "company"
             /\ parsed.company =
                    Strip(SearchCompany(command, company_patterns[FirstTemplate(command)]))
        ELSE parsed.type = "person"

\* the first template wins over the third, which captures another name
C3_Witness ==
    /\ Classified
    /\ command = PhraseEmployees
    /\ FirstTemplate(command) = 1
    /\ SearchCompany(command, company_patterns[3]) = <<"T", "e", "c", "h", "C", "o", "r", "p">>
    /\ parsed.type = "company"
    /\ parsed.company = <<"I", "n", "c">>

\* the contacts that summarize found in the aggregated text
Found == [emails |-> emails, phones |-> phones]

\* a summary was returned by this call
Summarized == pc = "returned" /\ exc = <<>>

\* C4: a failure inside the web fetch is recovered locally: fetch_data returns
\* "Error fetching URL <url>: <message>" as the text of that URL, no exception
\* of fetch_data reaches the handler of gather_intelligence, every URL of the
\* intent is still fetched, summarize is still called once, and the result is
\* a rendered summary, not the "Error gathering intelligence: " string.
C4_FetchFailureRecovered ==
    /\ exc # <<>> => exc[1] # "fetch_data"
    /\ \A k \in 1..Len(fetch_log) :
           (fetch_log[k][1] = LitWeb /\ ~fetch_log[k][3]) =>
               /\ k <= Len(gathered_data)
               /\ \E e \in FetchErrors :
                      gathered_data[k] =
                          <<"U", "R", "L", " ">> \o fetch_log[k][2] \o <<":", "\n">> \o <<"E",
                                  "r", "r", "o", "r", " ", "f", "e", "t", "c", "h", "i", "n", "g",
                                  " ", "U", "R", "L", " ">>
                              \o fetch_log[k][2] \o <<":", " ">> \o e
    /\ (parsed.type = "url" /\ exc = <<>> /\ pc \in {"summarize", "returned"}) =>
           /\ Len(fetch_log) = Len(parsed.urls)
           /\ \A k \in 1..Len(fetch_log) : fetch_log[k][2] = parsed.urls[k]
    /\ (parsed.type = "url" /\ exc = <<>> /\ pc = "returned") =>
           /\ ai_log = <<output_format>>
           /\ ~StartsWith(result, ErrorPrefix)
           /\ emails = find_emails(SummarizeInput)
           /\ phones = find_phones(SummarizeInput)
           /\ \E eorder \in SetOrders(emails), porder \in SetOrders(phones) :
                  result = render(Found, output_format, eorder, porder)

\* the first of two URLs timed out, the second was fetched, the summary came
C4_Witness ==
    /\ pc = "returned"
    /\ exc = <<>>
    /\ command = CmdTwoUrls
    /\ Len(fetch_log) = 2
    /\ fetch_log[1] = <<LitWeb, <<"h", "t", "t", "p", "s", ":", "/", "/", "a", ".", "i",
            "o">>, FALSE>>
    /\ fetch_log[2] = <<LitWeb, <<"h", "t", "t", "p", ":", "/", "/", "b", ".", "c", "o", "/",
            "x">>, TRUE>>
    /\ gathered_data[1] =
           <<"U", "R", "L", " ", "h", "t", "t", "p", "s", ":", "/", "/", "a", ".", "i", "o", ":",
                   "\n", "E", "r", "r", "o", "r", " ", "f", "e", "t", "c", "h", "i", "n", "g",
                   " ", "U", "R", "L", " ", "h", "t", "t", "p", "s", ":", "/", "/", "a", ".", "i",
                   "o", ":", " ", "t", "i", "m", "e", "d", " ", "o", "u", "t">>
    /\ ai_log = <<output_format>>
    /\ ~StartsWith(result, ErrorPrefix)

\* C5 as stated: a format selector outside text, json and markdown is
\* rejected at the boundary of gather_intelligence: summarize is never called
\* with it, and the call ends in an error, not in a rendered summary.
C5_SelectorRejected ==
    /\ \A k \in 1..Len(ai_log) : ai_log[k] \in Formats
    /\ (pc = "returned" /\ output_format \notin Formats) =>
           /\ exc # <<>>
           /\ \A eorder \in SetOrders(emails), porder \in SetOrders(phones) :
                  result # render(Found, "text", eorder, porder)

\* the lines of a text, the empty ones left out
LineEndAt(s, i) ==
    IF s[i] = "\n" \/ (i > 1 /\ s[i - 1] # "\n") THEN 0
    ELSE RunEnd(s, i, Range(s) \ {"\n"})

Lines(text) == FindAll(text, [i \in 1..Len(text) |-> LineEndAt(text, i)])

\* s.endswith(w)
EndsWith(s, w) == HasAt(s, Len(s) - Len(w) + 1, w)

\* the line of an indented JSON document that opens the member key at the
\* given depth of indentation, 0 if there is none
MemberLine(lines, depth, key) ==
    LET open == Pad(depth) \o <<"\"">> \o key \o <<"\"", ":", " ">>
        at == {k \in 1..Len(lines) : StartsWith(lines[k], open)}
    IN  IF at = {} THEN 0 ELSE Min(at)

\* the keys of the members of the top-level object
TopLevelKeys(lines) ==
    LET open == Pad(1) \o <<"\"">>
        at == {k \in 1..Len(lines) : StartsWith(lines[k], open)}
    IN  {SubSeq(lines[k], Len(open) + 1,
                Min({j \in (Len(open) + 1)..(Len(lines[k]) - 1) :
                         lines[k][j + 1] = "\""})) :
            k \in at}

\* what follows "key": on the line of a member
MemberValue(lines, depth, key) ==
    LET k == MemberLine(lines, depth, key)
    IN  SubSeq(lines[k], Len(Pad(depth)) + Len(key) + 5, Len(lines[k]))

\* the strings of the array that is the member key at the given depth
JsonArray(lines, depth, key) ==
    LET first == MemberLine(lines, depth, key)
    IN  IF first = 0 \/ MemberValue(lines, depth, key) # <<"[">> THEN <<>>
        ELSE LET last == Min({k \in (first + 1)..Len(lines) :
                                 StartsWith(lines[k], Pad(depth) \o <<"]">>)})
                 item(k) ==
                     LET line == lines[first + k]
                         from == Len(Pad(depth + 1)) + 2
                         to == IF line[Len(line)] = "," THEN Len(line) - 2 ELSE Len(line) - 1
                     IN  SubSeq(line, from, to)
             IN  [k \in 1..(last - first - 1) |-> item(k)]

\* C6 as stated: the json output parses to an object whose top-level keys are
\* among summary, contact_info, confidence and sources; contact_info is
\* left out when neither an email nor a phone was extracted and is never an
\* empty object; emails and phones are members of it only when non-empty.
C6_ContactInfoOmitted ==
    (Summarized /\ output_format = "json") =>
        \A lines \in {Lines(result)} :
            /\ lines[1] = <<"{">>
            /\ lines[Len(lines)] = <<"}">>
            /\ TopLevelKeys(lines) \subseteq
                   {<<"s", "u", "m", "m", "a", "r", "y">>, KeyContactInfo, <<"c", "o", "n", "f",
                           "i", "d", "e", "n", "c", "e">>, <<"s", "o", "u", "r", "c", "e", "s">>}
            /\ (emails = <<>> /\ phones = <<>>) =>
                   KeyContactInfo \notin TopLevelKeys(lines)
            /\ KeyContactInfo \in TopLevelKeys(lines) =>
                   /\ MemberValue(lines, 1, KeyContactInfo) = <<"{">>
                   /\ MemberLine(lines, 2, KeyEmails) # 0 =>
                          JsonArray(lines, 2, KeyEmails) # <<>>
                   /\ MemberLine(lines, 2, KeyPhones) # 0 =>
                          JsonArray(lines, 2, KeyPhones) # <<>>

\* the items in the order of their first occurrence, each once
RECURSIVE FirstSeen(_)
FirstSeen(items) ==
    IF items = <<>> THEN <<>>
    ELSE LET before == FirstSeen(SubSeq(items, 1, Len(items) - 1))
             last == items[Len(items)]
         IN  IF last \in Range(before) THEN before ELSE Append(before, last)

\* C7 as stated: the output of summarize is a function of the text and the
\* format alone, with the emails and the phones in the order of their first
\* occurrence in the text.
C7_InsertionOrder ==
    Summarized =>
        result = render(Found, output_format, FirstSeen(emails), FirstSeen(phones))

\* C8: in markdown the contact heading is there exactly when an email or a
\* phone was extracted, with the Emails line and the Phones line exactly when
\* that kind is non-empty, between the title with the narrative and the list
\* of sources, which are always there; in text the contact block and its two
\* lines follow the narrative under the same conditions.
C8_ContactSectionIffContacts ==
    (Summarized /\ output_format \in {"markdown", "text"}) =>
        LET some == emails # <<>> \/ phones # <<>>
        IN  /\ output_format = "markdown" =>
                   /\ StartsWith(result, MdTitle \o SummaryText)
                   /\ EndsWith(result, MdSources)
                   /\ Contains(result, MdContactHeading) <=> some
                   /\ Contains(result, MdEmails) <=> emails # <<>>
                   /\ Contains(result, MdPhones) <=> phones # <<>>
            /\ output_format = "text" =>
                   /\ StartsWith(result, SummaryText)
                   /\ Contains(result, TextContactHeading) <=> some
                   /\ Contains(result, TextEmails) <=> emails # <<>>
                   /\ Contains(result, TextPhones) <=> phones # <<>>
                   /\ ~some => result = SummaryText

\* a markdown summary with emails and no phone: the heading and the Emails
\* line, no Phones line
C8_Witness ==
    /\ Summarized
    /\ output_format = "markdown"
    /\ emails # <<>>
    /\ phones = <<>>
    /\ Contains(result, MdContactHeading \o MdEmails)
    /\ ~Contains(result, MdPhones)

\* the items of a list joined with ", "
ItemEndAt(s, i) ==
    IF i > 1 /\ ~HasAt(s, i - 2, <<",", " ">>) THEN 0
    ELSE Min({j \in i..Len(s) : j = Len(s) \/ HasAt(s, j + 1, <<",", " ">>)})

\* the items listed after a label, up to the end of its line
ItemsAfter(text, label) ==
    IF ~Contains(text, label) THEN <<>>
    ELSE LET at == Min({i \in 1..Len(text) : HasAt(text, i, label)}) + Len(label)
             line == SubSeq(text, at, RunEnd(text, at, Range(text) \ {"\n"}))
         IN  FindAll(line, [i \in 1..Len(line) |-> ItemEndAt(line, i)])

\* the emails and the phones a summary lists, read back from its text
Rendered(text, format_type) ==
    IF format_type = "json"
    THEN [emails |-> JsonArray(Lines(text), 2, KeyEmails),
          phones |-> JsonArray(Lines(text), 2, KeyPhones)]
    ELSE IF format_type = "markdown"
    THEN [emails |-> ItemsAfter(text, MdEmails), phones |-> ItemsAfter(text, MdPhones)]
    ELSE [emails |-> ItemsAfter(text, TextEmails), phones |-> ItemsAfter(text, TextPhones)]

NoDuplicate(items) == \A i, j \in 1..Len(items) : items[i] = items[j] => i = j

\* C9: in every format each email and each phone is rendered at most once,
\* however often the aggregated text holds it, and every rendered email or
\* phone is a match of the extraction pattern in that text.
C9_Deduplicated ==
    Summarized =>
        \A shown \in {Rendered(result, output_format)} :
            /\ NoDuplicate(shown.emails)
            /\ NoDuplicate(shown.phones)
            /\ Range(shown.emails) \subseteq Range(emails)
            /\ Range(shown.phones) \subseteq Range(phones)
            /\ emails # <<>> => shown.emails # <<>>
            /\ phones # <<>> => shown.phones # <<>>

\* an email that the aggregated text holds more than once is rendered once
C9_Witness ==
    /\ Summarized
    /\ \E i, j \in 1..Len(emails) : i # j /\ emails[i] = emails[j]
    /\ Len(Rendered(result, output_format).emails) = Cardinality(Range(emails))
    /\ Cardinality(Range(emails)) >= 2
    /\ phones # <<>>

\* C10 as stated: "employees from TechCorp Inc" in text format is a
\* CompanyIntent for "TechCorp Inc", with one fetch of the company plugin, and
\* the contact block lists three emails at techcorpinc.com and the phones
\* +1-555-0101, +1-555-0102 and +1-555-0103.
C10_TechCorpScenario ==
    (Summarized /\ command = PhraseEmployees /\ output_format = "text") =>
        \A shown \in {Rendered(result, output_format)} :
            /\ parsed.type = "company"
            /\ parsed.company = <<"T", "e", "c", "h", "C", "o", "r", "p", " ", "I", "n", "c">>
            /\ Len(fetch_log) = 1
            /\ fetch_log[1][1] = LitCompany
            /\ Len(shown.emails) = 3
            /\ \A k \in 1..Len(shown.emails) : EndsWith(shown.emails[k], <<"@", "t", "e", "c",
                    "h", "c", "o", "r", "p", "i", "n", "c", ".", "c", "o", "m">>)
            /\ Range(shown.phones) = {<<"+", "1", "-", "5", "5", "5", "-", "0", "1", "0",
                    "1">>, <<"+", "1", "-", "5", "5", "5", "-", "0", "1", "0", "2">>, <<"+", "1",
                    "-", "5", "5", "5", "-", "0", "1", "0", "3">>}

\* the name of the person a command is about: two capitalized words
\* ([A-Z][a-z]+) with whitespace between them, behind the first "about" that
\* is followed by whitespace and such a name; "Unknown Person" if there is none
ExpectedName(text) ==
    LET IsCapWord(w) ==
            /\ Len(w) >= 2
            /\ w[1] \in UpperSet
            /\ \A k \in 2..Len(w) : w[k] \in LowerSet
        IsFullName(w) ==
            /\ w # <<>>
            /\ w[1] \notin SpaceSet
            /\ w[Len(w)] \notin SpaceSet
            /\ \A toks \in {Tokens(w)} :
                   Len(toks) = 2 /\ IsCapWord(toks[1]) /\ IsCapWord(toks[2])
        \* the names behind an "about" at i, as <<first, last>> positions
        AboutNameAt(i) ==
            IF ~HasAt(text, i, <<"a", "b", "o", "u", "t">>) THEN {}
            ELSE LET ink == {k \in (i + 5)..Len(text) : text[k] \notin SpaceSet}
                 IN  IF ink = {} \/ Min(ink) = i + 5 THEN {}
                     ELSE {<<Min(ink), e>> : e \in {e \in Min(ink)..Len(text) :
                              /\ e = Len(text) \/ text[e + 1] \notin LowerSet
                              /\ IsFullName(SubSeq(text, Min(ink), e))}}
        at == {i \in 1..Len(text) : AboutNameAt(i) # {}}
    IN  IF at = {} THEN <<"U", "n", "k", "n", "o", "w", "n", " ", "P", "e", "r", "s", "o", "n">>
        ELSE LET m == CHOOSE m \in AboutNameAt(Min(at)) : TRUE
             IN  SubSeq(text, m[1], m[2])

\* C11: "Tell me about John Doe" in json is a PersonIntent for "John Doe" with
\* the sources linkedin, twitter and github, each fetched once, and the emails
\* array of contact_info holds john.doe@techcorp.com and johndoe@gmail.com; in
\* general the name of a PersonIntent is the two capitalized words behind
\* "about", and "Unknown Person" when the command has no such phrase.
C11_PersonScenario ==
    /\ (Classified /\ parsed.type = "person") => parsed.name = ExpectedName(command)
    /\ (Classified /\ command = PhraseAbout) =>
           parsed = [type |-> "person", name |-> <<"J", "o", "h", "n", " ", "D", "o", "e">>,
                     sources |-> <<LitLinkedin, LitTwitter, LitGithub>>]
    /\ (Summarized /\ command = PhraseAbout) =>
           /\ fetch_log = <<<<LitLinkedin, <<"J", "o", "h", "n", " ", "D", "o", "e">>, TRUE>>,
                            <<LitTwitter, <<"J", "o", "h", "n", " ", "D", "o", "e">>, TRUE>>,
                            <<LitGithub, <<"J", "o", "h", "n", " ", "D", "o", "e">>, TRUE>>>>
           /\ output_format = "json" =>
                  {<<"j", "o", "h", "n", ".", "d", "o", "e", "@", "t", "e", "c", "h", "c", "o",
                          "r", "p", ".", "c", "o", "m">>, <<"j", "o", "h", "n", "d", "o", "e",
                          "@", "g", "m", "a", "i", "l", ".", "c", "o", "m">>}
                      \subseteq Range(JsonArray(Lines(result), 2, KeyEmails))

\* the scenario has run: three fetches, both emails in the json summary
C11_Witness ==
    /\ Summarized
    /\ command = PhraseAbout
    /\ output_format = "json"
    /\ parsed.name = <<"J", "o", "h", "n", " ", "D", "o", "e">>
    /\ Len(fetch_log) = 3
    /\ Range(JsonArray(Lines(result), 2, KeyEmails)) =
           {<<"j", "o", "h", "n", ".", "d", "o", "e", "@", "t", "e", "c", "h", "c", "o", "r", "p",
                   ".", "c", "o", "m">>, <<"j", "o", "h", "n", "d", "o", "e", "@", "g", "m", "a",
                   "i", "l", ".", "c", "o", "m">>}

\* C12 as stated: with no configuration file the agent is constructed without
\* error and its configuration is { provider: "mock", api_keys: {} }.
C12_Original ==
    /\ ~raised
    /\ Len(config) = 2
    /\ HasKey(config, "provider")
    /\ Lookup(config, "provider") = "mock"
    /\ HasKey(config, "api_keys")
    /\ Lookup(config, "api_keys") = <<>>

\* C12 amended: the entry with the value "mock" is named ai_provider.
C12_DefaultConfig ==
    /\ ~raised
    /\ Len(config) = 2
    /\ HasKey(config, "ai_provider")
    /\ Lookup(config, "ai_provider") = "mock"
    /\ HasKey(config, "api_keys")
    /\ Lookup(config, "api_keys") = <<>>

\* an agent constructed without a configuration file has answered a command
C12_Witness ==
    /\ \E f \in ConfigFiles : ~f.exists /\ config = load_config(f)
    /\ config = << <<"ai_provider", "mock">>, <<"api_keys", <<>> >> >>
    /\ Summarized

\* the text that a company or person intent gives to summarize, computed from
\* the intent and the registry as constructed, with no state of the agent
IntentText(intent) ==
    IF intent.type = "company"
    THEN <<"C", "o", "m", "p", "a", "n", "y", ":", " ">> \o intent.company \o <<"\n",
            "\n">> \o <<"C", "O", "M", "P", "A", "N", "Y", " ", "R", "E", "S", "E", "A", "R", "C",
            "H", ":", "\n">>
             \o CompanyPlugin_fetch_data(intent.company)
    ELSE <<"P", "e", "r", "s", "o", "n", ":", " ">> \o intent.name \o <<"\n", "\n">>
             \o Join([k \in 1..Len(intent.sources) |->
                         StrUpper(intent.sources[k]) \o <<":", " ">>
                             \o PersonPlugin_fetch_data(
                                    Lookup(MCPParser_init, intent.sources[k]), intent.name)],
                     <<"\n">>)

\* C13: the agent keeps nothing from one call to the next: the configuration
\* and the registry sources_map are as constructed in every state, nothing of
\* a call is left when it is over, a call starts with nothing but its
\* arguments, and what it gives to summarize and returns is determined by its
\* own command and format (and, for URLs, the responses fetched in this call).
C13_Stateless ==
    /\ sources_map = MCPParser_init
    /\ config \in {load_config(f) : f \in ConfigFiles}
    /\ pc \in {"idle", "parse"} =>
           /\ parsed = NoIntent
           /\ gathered_data = <<>>
           /\ target = <<>>
           /\ idx = 0
           /\ fetch_log = <<>>
           /\ ai_log = <<>>
           /\ emails = <<>>
           /\ phones = <<>>
           /\ exc = <<>>
           /\ result = None
    /\ pc = "idle" => command = <<>> /\ output_format = "text"
    /\ (Classified /\ command # NotAStr) => parsed = parse_command(command)
    /\ (Summarized /\ parsed.type # "url") =>
           /\ SummarizeInput = IntentText(parse_command(command))
           /\ \E eorder \in SetOrders(emails), porder \in SetOrders(phones) :
                  result = render(Found, output_format, eorder, porder)
    /\ (Summarized /\ parsed.type = "url") =>
           /\ Len(gathered_data) = Len(fetch_log)
           /\ \E eorder \in SetOrders(emails), porder \in SetOrders(phones) :
                  result = render(Found, output_format, eorder, porder)

\* a call that failed is over and the agent is as it was constructed
C13_Witness ==
    /\ pc = "returned"
    /\ exc # <<>>
    /\ fetch_log # <<>>
    /\ sources_map = MCPParser_init
    /\ config = default_config

\* the number of fetches an intent asks for
FetchCount(intent) ==
    IF intent.type = "url" THEN Len(intent.urls)
    ELSE IF intent.type = "company" THEN 1
    ELSE IF intent.type = "person" THEN Len(intent.sources)
    ELSE 0

C15_SourceSelection ==
    /\ (Classified /\ parsed.type = "person") =>
           LET order == <<<<"l", "i", "n", "k", "e", "d", "i", "n">>, <<"t", "w", "i", "t", "t",
                   "e", "r">>, <<"g", "i", "t", "h", "u", "b">>>>
               named == {k \in 1..3 : Contains(StrLower(command), order[k])}
               chosen == IF named = {} THEN 1..3 ELSE named
               rank(src) == CHOOSE k \in 1..3 : order[k] = src
           IN  /\ parsed.sources # <<>>
               /\ NoDuplicate(parsed.sources)
               /\ Range(parsed.sources) = {order[k] : k \in chosen}
               /\ <<"w", "e", "b">> \notin Range(parsed.sources)
               /\ <<"c", "o", "m", "p", "a", "n", "y">> \notin Range(parsed.sources)
               /\ \A i, j \in 1..Len(parsed.sources) :
                      i < j => rank(parsed.sources[i]) < rank(parsed.sources[j])
    /\ parsed.type = "person" =>
           \A k \in 1..Len(fetch_log) :
               fetch_log[k][1] \in {<<"l", "i", "n", "k", "e", "d", "i", "n">>, <<"t", "w", "i",
                       "t", "t", "e", "r">>, <<"g", "i", "t", "h", "u", "b">>}

\* a command that names Twitter before LinkedIn, and the web and the company
\* source too, selects linkedin and twitter
C15_Witness ==
    /\ Classified
    /\ command = CmdJane
    /\ parsed.type = "person"
    /\ Contains(command, <<"T", "w", "i", "t", "t", "e", "r", " ", "a", "n", "d", " ", "L", "i",
            "n", "k", "e", "d", "I", "n", ",", " ", "w", "e", "b", ",", " ", "c", "o", "m", "p",
            "a", "n", "y">>)
    /\ parsed.sources = <<LitLinkedin, LitTwitter>>

====
